---- MODULE Spec2Model ----
(***************************************************************************)
(* Model of mcp_server_play_sound/audio_player.py: the audio backends      *)
(* (AFPlayBackend, SimpleAudioBackend), the backend registry built by      *)
(* AudioPlayer.__init__ and the play_notification / _play_with_backends    *)
(* orchestration with its fallback to the default sound.                   *)
(*                                                                         *)
(* Paths are sequences of path segments; Path(s) normalises a path string  *)
(* the way pathlib does for the cases used here (it drops "." segments).   *)
(* Messages are sequences of text fragments, so that an f-string is a      *)
(* concatenation.  Volumes are in tenths (10 is 1.0).                      *)
(***************************************************************************)
EXTENDS Integers, Sequences, FiniteSets, TLC

\* ------------------------------------------------------------------------
\* Bounds and input sets
\* ------------------------------------------------------------------------

\* sequential play_notification calls issued by one caller
MaxCalls == 2

\* is_available() calls made directly on a backend that is in no registry
MaxProbes == 1

Callers == {"c1", "c2"}

\* Optional[...] values that are None
None == <<"<None>">>
NoName == "None"

\* the bundled default sound, package_dir / "assets" / "notification.wav"
DefaultSoundPath == <<"assets", "notification.wav">>

\* path strings a caller may pass as custom_path
CustomPathArgs ==
    { None, <<>>, <<"custom.wav">>, <<".", "assets", "notification.wav">> }

\* values of config.custom_sound_path
ConfigCustomPaths == { None, <<"config.wav">> }

VolumeLevels == {5, 10}
TimeoutValues == {30}

\* files the model's filesystem knows about
Files == { DefaultSoundPath, <<"custom.wav">>, <<"config.wav">> }

\* stderr text of a failing afplay / text of an exception
Diagnostics == {"", "diag"}

\* ------------------------------------------------------------------------
\* Result model
\* ------------------------------------------------------------------------

PlaybackStatus ==
    {"success", "failed", "fallback_used", "timeout", "file_not_found",
     "unsupported_format"}

PlaybackResult(status, message, backend_used) ==
    [status |-> status, message |-> message,
     backend_used |-> backend_used, fallback_used |-> FALSE]

\* the value of a result variable that holds None
NoResult ==
    [status |-> "None", message |-> <<>>,
     backend_used |-> NoName, fallback_used |-> FALSE]

\* ------------------------------------------------------------------------
\* Conversions
\* ------------------------------------------------------------------------

NotDot(seg) == seg # "."

\* pathlib.Path(s): "." segments are dropped
Path(s) == SelectSeq(s, NotDot)

\* bool(custom_path): None and the empty string are falsy
Truthy(s) == s # None /\ s # <<>>

\* str(n) for the numbers that appear in messages and commands
Str(n) ==
    CASE n = 0 -> "0"
      [] n = 5 -> "0.5"
      [] n = 10 -> "1.0"
      [] n = 15 -> "1.5"
      [] n = 30 -> "30"
      [] OTHER -> "n"

\* sub occurs in msg as a contiguous run of fragments
Contains(msg, sub) ==
    \E i \in 1..(Len(msg) + 1) :
        /\ i + Len(sub) - 1 <= Len(msg)
        /\ SubSeq(msg, i, i + Len(sub) - 1) = sub

\* ------------------------------------------------------------------------
\* Messages
\* ------------------------------------------------------------------------

FileNotFoundMessage(file_path) == <<"Audio file not found: ">> \o file_path

TimeoutMessage(timeout) ==
    <<"Audio playback timed out after ", Str(timeout), " seconds">>

AFPlayCommand(file_path, volume) ==
    <<"afplay">> \o (IF volume # 10 THEN <<"-v", Str(volume)>> ELSE <<>>)
                 \o file_path

\* AFPlayExitResult that reports success whatever afplay's return code
AFPlayExitResult_IgnoresReturnCode(rc, stderr) ==
    PlaybackResult("success", <<"Audio played successfully">>, "afplay")

\* AFPlayExitResult that drops what afplay wrote to stderr
AFPlayExitResult_SwallowsStderr(rc, stderr) ==
    IF rc = 0
    THEN PlaybackResult("success", <<"Audio played successfully">>, "afplay")
    ELSE PlaybackResult("failed", <<"afplay failed">>, "afplay")

AFPlayExitResult(rc, stderr) ==
    IF rc = 0
    THEN PlaybackResult("success", <<"Audio played successfully">>, "afplay")
    ELSE PlaybackResult("failed",
             <<"afplay failed: ",
               IF stderr # "" THEN stderr ELSE "Unknown afplay error">>,
             "afplay")

AFPlayErrorResult(e) ==
    PlaybackResult("failed", <<"afplay error: ", e>>, "afplay")

\* the arguments _play_sync is submitted with
PlaySyncArgs(file_path, volume) == file_path \o <<Str(volume)>>

PlaySyncResult(rc, e) ==
    IF rc = 0
    THEN PlaybackResult("success", <<"Audio played successfully">>,
                        "simpleaudio")
    ELSE PlaybackResult("failed", <<"simpleaudio playback error: ", e>>,
                        "simpleaudio")

SimpleAudioErrorResult(e) ==
    PlaybackResult("failed", <<"simpleaudio error: ", e>>, "simpleaudio")

NoBackendsResult ==
    PlaybackResult("failed", <<"No audio backends available">>, NoName)

AllFailedResult ==
    PlaybackResult("failed", <<"All audio backends failed">>, NoName)

\* ------------------------------------------------------------------------
\* State
\* ------------------------------------------------------------------------

VARIABLES
    config,             \* the ServerConfig handed to AudioPlayer
    host,               \* what the host offers: platform, which afplay, import
    exists,             \* the filesystem: Path.exists() per file
    constructed,        \* AudioPlayer.__init__ has run
    backends,           \* AudioPlayer.backends, names in registry order
    simpleaudio_loaded, \* SimpleAudioBackend._simpleaudio is set, per instance
    probes,             \* is_available() evaluations per backend variant
    calls,              \* per caller: the frame of its call in progress
    nCalls,             \* per caller: calls issued so far
    escaped             \* the exception a probe let escape to its caller

vars == <<config, host, exists, constructed, backends, simpleaudio_loaded,
          probes, calls, nCalls, escaped>>

\* backend instances: the ones in the registry, and ones used on their own
Instances == {"registry", "direct"}

BackendNames == {"afplay", "simpleaudio"}

Hosts ==
    { h \in [platform : {"darwin", "linux"},
             which : {"found", "notfound"},
             simpleaudio : {"importable", "missing"}] :
        h.platform = "linux" => h.which = "notfound" }

Configs ==
    [custom_sound_path : ConfigCustomPaths,
     enable_fallback : BOOLEAN,
     volume_level : VolumeLevels,
     playback_timeout_seconds : TimeoutValues]

\* the underlying mechanism of one attempt (afplay subprocess or worker
\* thread running _play_sync)
NoMech == [state |-> "none", rc |-> 0, diag |-> ""]

\* the frame of a caller that has not called yet
IdleCall ==
    [pc |-> "idle",
     inst |-> "registry",
     custom_path |-> None,
     audio_path |-> None,
     use_custom |-> FALSE,
     phase |-> "none",
     file_path |-> None,
     backend |-> NoName,
     idx |-> 0,
     last_result |-> NoResult,
     attempt |-> NoResult,
     pass_result |-> NoResult,
     result |-> NoResult,
     ret |-> NoResult,
     prev_success |-> FALSE,
     mech |-> NoMech,
     log |-> <<>>]

Init ==
    /\ config \in Configs
    /\ host \in Hosts
    /\ exists \in [Files -> BOOLEAN]
    /\ constructed = FALSE
    /\ backends = <<>>
    /\ simpleaudio_loaded = [i \in Instances |-> FALSE]
    /\ probes = [b \in BackendNames |-> 0]
    /\ calls = [c \in Callers |-> IdleCall]
    /\ nCalls = [c \in Callers |-> 0]
    /\ escaped = "None"

\* Path.exists() of a path: files outside the modelled filesystem are absent
FileExists(p) == p \in Files /\ exists[p]

\* ------------------------------------------------------------------------
\* Registry construction
\* ------------------------------------------------------------------------

AFPlayIsAvailable == host.platform = "darwin" /\ host.which = "found"

\* subprocess.run(["which", "afplay"]) raises an exception that
\* AFPlayBackend.is_available does not catch
AFPlayProbeRaises == host.platform = "darwin" /\ host.which = "oserror"

SimpleAudioIsAvailable == host.simpleaudio = "importable"

\* SetupBackends that registers SimpleAudio ahead of AFPlay
SetupBackends_SimpleAudioFirst ==
    (IF SimpleAudioIsAvailable THEN <<"simpleaudio">> ELSE <<>>)
        \o (IF AFPlayIsAvailable THEN <<"afplay">> ELSE <<>>)

\* AudioPlayer._setup_backends: the registry it builds
SetupBackends ==
    (IF AFPlayIsAvailable THEN <<"afplay">> ELSE <<>>)
        \o (IF SimpleAudioIsAvailable THEN <<"simpleaudio">> ELSE <<>>)

\* Construct whose SimpleAudioBackend probe does not keep the imported
\* module, so that play has to probe again
Construct_NoProbeCache ==
    /\ ~constructed
    /\ escaped = "None"
    /\ IF AFPlayProbeRaises
       THEN /\ escaped' = "OSError"
            /\ probes' = [probes EXCEPT !["afplay"] = @ + 1]
            /\ UNCHANGED <<constructed, backends, simpleaudio_loaded>>
       ELSE /\ constructed' = TRUE
            /\ backends' = SetupBackends
            /\ probes' = [b \in BackendNames |-> probes[b] + 1]
            /\ UNCHANGED <<escaped, simpleaudio_loaded>>
    /\ UNCHANGED <<config, host, exists, calls, nCalls>>

\* AudioPlayer(config)
Construct ==
    /\ ~constructed
    /\ escaped = "None"
    /\ IF AFPlayProbeRaises
       THEN /\ escaped' = "OSError"
            /\ probes' = [probes EXCEPT !["afplay"] = @ + 1]
            /\ UNCHANGED <<constructed, backends, simpleaudio_loaded>>
       ELSE /\ constructed' = TRUE
            /\ backends' = SetupBackends
            /\ simpleaudio_loaded' =
                   [simpleaudio_loaded EXCEPT
                       !["registry"] = SimpleAudioIsAvailable]
            /\ probes' = [b \in BackendNames |-> probes[b] + 1]
            /\ UNCHANGED escaped
    /\ UNCHANGED <<config, host, exists, calls, nCalls>>

\* ------------------------------------------------------------------------
\* play_notification and _play_with_backends
\* ------------------------------------------------------------------------

SetCall(c, f) == calls' = [calls EXCEPT ![c] = f]

\* the asset selection at the head of play_notification
SelectAudioPath(custom_path) ==
    IF Truthy(custom_path) /\ Truthy(config.custom_sound_path)
    THEN Path(config.custom_sound_path)
    ELSE IF Truthy(custom_path) THEN Path(custom_path)
    ELSE DefaultSoundPath

SelectUseCustom(custom_path) == Truthy(custom_path)

\* await player.play_notification(custom_path), up to the first pass
PlayNotification(c, custom_path) ==
    /\ constructed
    /\ calls[c].pc \in {"idle", "done"}
    /\ nCalls[c] < MaxCalls
    /\ nCalls' = [nCalls EXCEPT ![c] = @ + 1]
    /\ SetCall(c, [IdleCall EXCEPT
                     !.pc = "pass_start",
                     !.prev_success = (calls[c].ret.status = "success"),
                     !.custom_path = custom_path,
                     !.audio_path = SelectAudioPath(custom_path),
                     !.use_custom = SelectUseCustom(custom_path),
                     !.phase = "primary",
                     !.file_path = SelectAudioPath(custom_path)])
    /\ UNCHANGED <<escaped, config, host, exists, constructed, backends,
                   simpleaudio_loaded, probes>>

\* PlayWithBackends with an empty registry falling through to a backend
\* that was never registered
PlayWithBackends_TriesAnyway(c) ==
    /\ calls[c].pc = "pass_start"
    /\ SetCall(c, [calls[c] EXCEPT
                     !.pc = "play",
                     !.idx = 1,
                     !.backend = IF backends = <<>> THEN "afplay"
                                 ELSE backends[1],
                     !.last_result = NoResult])
    /\ UNCHANGED <<escaped, config, host, exists, constructed, backends,
                   simpleaudio_loaded, probes, nCalls>>

\* PlayWithBackends that starts the pass at the last backend of the registry
PlayWithBackends_StartsLast(c) ==
    /\ calls[c].pc = "pass_start"
    /\ IF backends = <<>>
       THEN SetCall(c, [calls[c] EXCEPT
                          !.pc = "pass_return",
                          !.pass_result = NoBackendsResult])
       ELSE SetCall(c, [calls[c] EXCEPT
                          !.pc = "play",
                          !.idx = Len(backends),
                          !.backend = backends[Len(backends)],
                          !.last_result = NoResult])
    /\ UNCHANGED <<escaped, config, host, exists, constructed, backends,
                   simpleaudio_loaded, probes, nCalls>>

\* entry of _play_with_backends(file_path)
PlayWithBackends(c) ==
    /\ calls[c].pc = "pass_start"
    /\ IF backends = <<>>
       THEN SetCall(c, [calls[c] EXCEPT
                          !.pc = "pass_return",
                          !.pass_result = NoBackendsResult])
       ELSE SetCall(c, [calls[c] EXCEPT
                          !.pc = "play",
                          !.idx = 1,
                          !.backend = backends[1],
                          !.last_result = NoResult])
    /\ UNCHANGED <<escaped, config, host, exists, constructed, backends,
                   simpleaudio_loaded, probes, nCalls>>

\* LastResultOr that answers with the synthesized result whatever the last
\* backend returned
LastResultOr_AlwaysSynthesizes(last_result) == AllFailedResult

\* last_result or PlaybackResult(FAILED, "All audio backends failed")
LastResultOr(last_result) ==
    IF last_result = NoResult THEN AllFailedResult ELSE last_result

\* LoopDecision that goes on to the next backend after a success
LoopDecision_NoShortCircuit(status, idx, n) ==
    IF idx < n THEN "continue"
    ELSE IF status = "success" THEN "return"
    ELSE "exhausted"

\* LoopDecision that lets a timeout end the whole pass
LoopDecision_TimeoutAborts(status, idx, n) ==
    IF status \in {"success", "timeout"} THEN "return"
    ELSE IF idx < n THEN "continue"
    ELSE "exhausted"

\* what the loop of _play_with_backends does with the result of backend
\* number idx out of n
LoopDecision(status, idx, n) ==
    IF status = "success" THEN "return"
    ELSE IF idx < n THEN "continue"
    ELSE "exhausted"

\* LoopNext that tries a backend a second time after its first timeout
LoopNext_RetriesTimeout(c) ==
    LET f == calls[c]
        decision == LoopDecision(f.attempt.status, f.idx, Len(backends))
    IN
    /\ f.pc = "attempt_done"
    /\ f.inst = "registry"
    /\ CASE f.attempt.status = "timeout"
              /\ f.last_result.status # "timeout" ->
              SetCall(c, [f EXCEPT !.pc = "play",
                                   !.last_result = f.attempt])
         [] decision = "return" ->
              SetCall(c, [f EXCEPT !.pc = "pass_return",
                                   !.pass_result = f.attempt])
         [] decision = "continue" ->
              SetCall(c, [f EXCEPT !.pc = "play",
                                   !.idx = f.idx + 1,
                                   !.backend = backends[f.idx + 1],
                                   !.last_result = f.attempt])
         [] OTHER ->
              SetCall(c, [f EXCEPT !.pc = "pass_return",
                                   !.last_result = f.attempt,
                                   !.pass_result = LastResultOr(f.attempt)])
    /\ UNCHANGED <<escaped, config, host, exists, constructed, backends,
                   simpleaudio_loaded, probes, nCalls>>

\* LoopNext with last_result kept on the AudioPlayer instead of in the
\* call: an exhausted pass may return what another call stored there
LoopNext_SharedLastResult(c) ==
    LET f == calls[c]
        decision == LoopDecision(f.attempt.status, f.idx, Len(backends))
        stored == {f.attempt} \cup
                  { calls[d].last_result : d \in
                      { e \in Callers \ {c} :
                          calls[e].last_result # NoResult } }
    IN
    /\ f.pc = "attempt_done"
    /\ f.inst = "registry"
    /\ CASE decision = "return" ->
              SetCall(c, [f EXCEPT !.pc = "pass_return",
                                   !.pass_result = f.attempt])
         [] decision = "continue" ->
              SetCall(c, [f EXCEPT !.pc = "play",
                                   !.idx = f.idx + 1,
                                   !.backend = backends[f.idx + 1],
                                   !.last_result = f.attempt])
         [] OTHER ->
              \E last_result \in stored :
                  SetCall(c, [f EXCEPT !.pc = "pass_return",
                                       !.last_result = f.attempt,
                                       !.pass_result =
                                           LastResultOr(last_result)])
    /\ UNCHANGED <<escaped, config, host, exists, constructed, backends,
                   simpleaudio_loaded, probes, nCalls>>

\* the loop body of _play_with_backends after backend.play has returned
LoopNext(c) ==
    LET f == calls[c]
        decision == LoopDecision(f.attempt.status, f.idx, Len(backends))
    IN
    /\ f.pc = "attempt_done"
    /\ f.inst = "registry"
    /\ CASE decision = "return" ->
              SetCall(c, [f EXCEPT !.pc = "pass_return",
                                   !.pass_result = f.attempt])
         [] decision = "continue" ->
              SetCall(c, [f EXCEPT !.pc = "play",
                                   !.idx = f.idx + 1,
                                   !.backend = backends[f.idx + 1],
                                   !.last_result = f.attempt])
         [] OTHER ->
              SetCall(c, [f EXCEPT !.pc = "pass_return",
                                   !.last_result = f.attempt,
                                   !.pass_result = LastResultOr(f.attempt)])
    /\ UNCHANGED <<escaped, config, host, exists, constructed, backends,
                   simpleaudio_loaded, probes, nCalls>>

\* FallbackCondition that does not read config.enable_fallback
FallbackCondition_IgnoresFlag(result, use_custom, audio_path) ==
    /\ result.status # "success"
    /\ use_custom
    /\ audio_path # DefaultSoundPath

\* FallbackCondition that does not compare the asset with the default
FallbackCondition_NoDefaultCheck(result, use_custom, audio_path) ==
    /\ result.status # "success"
    /\ use_custom
    /\ config.enable_fallback

\* the condition guarding the fallback pass in play_notification
FallbackCondition(result, use_custom, audio_path) ==
    /\ result.status # "success"
    /\ use_custom
    /\ config.enable_fallback
    /\ audio_path # DefaultSoundPath

\* play_notification after the primary pass has returned
AfterPrimary(c) ==
    LET f == calls[c] IN
    /\ f.pc = "pass_return"
    /\ f.phase = "primary"
    /\ IF FallbackCondition(f.pass_result, f.use_custom, f.audio_path)
       THEN SetCall(c, [f EXCEPT !.pc = "pass_start",
                                 !.result = f.pass_result,
                                 !.phase = "fallback",
                                 !.file_path = DefaultSoundPath])
       ELSE SetCall(c, [f EXCEPT !.pc = "done",
                                 !.result = f.pass_result,
                                 !.ret = f.pass_result])
    /\ UNCHANGED <<escaped, config, host, exists, constructed, backends,
                   simpleaudio_loaded, probes, nCalls>>

\* Relabel that leaves the status of the fallback result as it is
Relabel_KeepsStatus(fallback_result, result) ==
    [fallback_result EXCEPT
        !.fallback_used = TRUE,
        !.message = <<"Custom audio failed, used fallback: ">>
                        \o result.message]

\* Relabel that sets the status and leaves the fallback flag unset
Relabel_NoFlag(fallback_result, result) ==
    [fallback_result EXCEPT
        !.status = "fallback_used",
        !.message = <<"Custom audio failed, used fallback: ">>
                        \o result.message]

\* Relabel that leaves the message of the primary failure out
Relabel_DropsOriginal(fallback_result, result) ==
    [fallback_result EXCEPT
        !.fallback_used = TRUE,
        !.status = "fallback_used",
        !.message = <<"Custom audio failed, used fallback">>]

\* the relabelling of a successful fallback result
Relabel(fallback_result, result) ==
    [fallback_result EXCEPT
        !.fallback_used = TRUE,
        !.status = "fallback_used",
        !.message = <<"Custom audio failed, used fallback: ">>
                        \o result.message]

\* FallbackReturn that returns the failure of the fallback pass
FallbackReturn_SurfacesFallback(fallback_result, result) ==
    IF fallback_result.status = "success"
    THEN Relabel(fallback_result, result)
    ELSE fallback_result

\* what play_notification returns after the fallback pass
FallbackReturn(fallback_result, result) ==
    IF fallback_result.status = "success"
    THEN Relabel(fallback_result, result)
    ELSE result

\* play_notification after the fallback pass has returned
AfterFallback(c) ==
    LET f == calls[c] IN
    /\ f.pc = "pass_return"
    /\ f.phase = "fallback"
    /\ SetCall(c, [f EXCEPT !.pc = "done",
                            !.ret = FallbackReturn(f.pass_result, f.result)])
    /\ UNCHANGED <<escaped, config, host, exists, constructed, backends,
                   simpleaudio_loaded, probes, nCalls>>

\* ------------------------------------------------------------------------
\* Backends
\* ------------------------------------------------------------------------

FileNotFoundResult(name, file_path) ==
    PlaybackResult("file_not_found", FileNotFoundMessage(file_path), name)

TimeoutResult(name, timeout) ==
    PlaybackResult("timeout", TimeoutMessage(timeout), name)

\* the record kept of one backend.play invocation
NewAttempt(f, present) ==
    [backend |-> f.backend, path |-> f.file_path, phase |-> f.phase,
     present |-> present, spawned |-> FALSE, cmd |-> <<>>,
     expired |-> FALSE, timer |-> FALSE, kill |-> "none",
     running |-> FALSE, status |-> "pending"]

Invoked(f, present) == [f EXCEPT !.log = Append(f.log, NewAttempt(f, present)),
                                 !.mech = NoMech,
                                 !.attempt = NoResult]

\* backend.play returns res
Returned(f, res) ==
    [f EXCEPT !.pc = "attempt_done",
              !.attempt = res,
              !.log[Len(f.log)].status = res.status]

\* the mechanism of the attempt starts with command or arguments cmd, and
\* play waits for it at pc
Started(f, pc, cmd) ==
    [f EXCEPT !.pc = pc,
              !.mech = [state |-> "running", rc |-> 0, diag |-> ""],
              !.log[Len(f.log)].spawned = TRUE,
              !.log[Len(f.log)].running = TRUE,
              !.log[Len(f.log)].cmd = cmd]

\* AFPlayCheck without the file check
AFPlayCheck_NoFileCheck(present) == "spawn"

\* the head of AFPlayBackend.play: what it does before spawning
AFPlayCheck(present) == IF present THEN "spawn" ELSE "file_not_found"

\* AFPlayBackend.play is entered
AFPlayEntry(c) ==
    LET f == calls[c]
        g == Invoked(f, FileExists(f.file_path))
    IN
    /\ f.pc = "play"
    /\ f.backend = "afplay"
    /\ IF AFPlayCheck(FileExists(f.file_path)) = "file_not_found"
       THEN SetCall(c, Returned(g, FileNotFoundResult("afplay", f.file_path)))
       ELSE SetCall(c, [g EXCEPT !.pc = "af_spawn"])
    /\ UNCHANGED <<escaped, config, host, exists, constructed, backends,
                   simpleaudio_loaded, probes, nCalls>>

\* await asyncio.create_subprocess_exec(*cmd): the process starts, or the
\* call raises and the outer except turns the exception into a result
AFPlaySpawn(c) ==
    LET f == calls[c] IN
    /\ f.pc = "af_spawn"
    /\ \/ SetCall(c, Started(f, "af_wait",
                         AFPlayCommand(f.file_path, config.volume_level)))
       \/ SetCall(c, Returned(f, AFPlayErrorResult("spawn error")))
    /\ UNCHANGED <<escaped, config, host, exists, constructed, backends,
                   simpleaudio_loaded, probes, nCalls>>

\* wait_for(process.communicate(), timeout) returns: the process has exited
\* (with a timeout that is not positive wait_for raises TimeoutError at once)
AFPlayCommunicate(c) ==
    LET f == calls[c] IN
    /\ f.pc = "af_wait"
    /\ f.mech.state = "exited"
    /\ config.playback_timeout_seconds > 0
    /\ SetCall(c, Returned(f, AFPlayExitResult(f.mech.rc, f.mech.diag)))
    /\ UNCHANGED <<escaped, config, host, exists, constructed, backends,
                   simpleaudio_loaded, probes, nCalls>>

\* process.kill(): a running process is killed; on a process that has
\* exited the transport may already be closed, and kill() then raises
\* ProcessLookupError
KillOutcomes(state) ==
    IF state = "running" THEN {"killed"} ELSE {"killed", "lookup_error"}

\* the result of the except asyncio.TimeoutError branch of AFPlayBackend.play
\* for an outcome of process.kill()
AFPlayTimeoutResult(outcome, timeout) ==
    IF outcome = "lookup_error"
    THEN AFPlayErrorResult("")
    ELSE TimeoutResult("afplay", timeout)

\* AFPlayKill that reports the timeout and leaves the subprocess running
AFPlayKill_NoKill(c) ==
    LET f == calls[c] IN
    /\ f.pc = "af_timeout"
    /\ SetCall(c, Returned(f, TimeoutResult("afplay",
                                  config.playback_timeout_seconds)))
    /\ UNCHANGED <<escaped, config, host, exists, constructed, backends,
                   simpleaudio_loaded, probes, nCalls>>

\* except asyncio.TimeoutError: process.kill(); await process.wait()
AFPlayKill(c) ==
    LET f == calls[c] IN
    /\ f.pc = "af_timeout"
    /\ \E outcome \in KillOutcomes(f.mech.state) :
         SetCall(c, Returned(
             [f EXCEPT !.mech.state =
                 IF f.mech.state = "running" THEN "killed" ELSE @,
                       !.log[Len(f.log)].running = FALSE,
                       !.log[Len(f.log)].kill = outcome],
             AFPlayTimeoutResult(outcome, config.playback_timeout_seconds)))
    /\ UNCHANGED <<escaped, config, host, exists, constructed, backends,
                   simpleaudio_loaded, probes, nCalls>>

\* the head of SimpleAudioBackend.play: what it does before submitting
\* _play_sync to the executor
SimpleAudioCheck(loaded, importable, present) ==
    IF ~loaded /\ ~importable THEN "not_available"
    ELSE IF ~present THEN "file_not_found"
    ELSE "submit"

\* SimpleAudioEntry that reuses what the attempt before it saw of the same
\* file instead of asking the filesystem again
SimpleAudioEntry_CachedExists(c) ==
    LET f == calls[c]
        g == Invoked(f, FileExists(f.file_path))
        loaded == simpleaudio_loaded[f.inst]
        seen == IF f.log # <<>> /\ f.log[Len(f.log)].path = f.file_path
                THEN f.log[Len(f.log)].present
                ELSE FileExists(f.file_path)
        check == SimpleAudioCheck(loaded, SimpleAudioIsAvailable, seen)
    IN
    /\ f.pc = "play"
    /\ f.backend = "simpleaudio"
    /\ probes' = [probes EXCEPT !["simpleaudio"] =
                     IF loaded THEN @ ELSE @ + 1]
    /\ simpleaudio_loaded' =
           [simpleaudio_loaded EXCEPT ![f.inst] =
               loaded \/ SimpleAudioIsAvailable]
    /\ CASE check = "not_available" ->
              SetCall(c, Returned(g, PlaybackResult("failed",
                             <<"simpleaudio not available">>, "simpleaudio")))
         [] check = "file_not_found" ->
              SetCall(c, Returned(g, FileNotFoundResult("simpleaudio",
                                                        f.file_path)))
         [] OTHER ->
              SetCall(c, [g EXCEPT !.pc = "sa_submit"])
    /\ UNCHANGED <<escaped, config, host, exists, constructed, backends, nCalls>>

\* SimpleAudioBackend.play is entered
SimpleAudioEntry(c) ==
    LET f == calls[c]
        g == Invoked(f, FileExists(f.file_path))
        loaded == simpleaudio_loaded[f.inst]
        check == SimpleAudioCheck(loaded, SimpleAudioIsAvailable,
                                  FileExists(f.file_path))
    IN
    /\ f.pc = "play"
    /\ f.backend = "simpleaudio"
    /\ probes' = [probes EXCEPT !["simpleaudio"] =
                     IF loaded THEN @ ELSE @ + 1]
    /\ simpleaudio_loaded' =
           [simpleaudio_loaded EXCEPT ![f.inst] =
               loaded \/ SimpleAudioIsAvailable]
    /\ CASE check = "not_available" ->
              SetCall(c, Returned(g, PlaybackResult("failed",
                             <<"simpleaudio not available">>, "simpleaudio")))
         [] check = "file_not_found" ->
              SetCall(c, Returned(g, FileNotFoundResult("simpleaudio",
                                                        f.file_path)))
         [] OTHER ->
              SetCall(c, [g EXCEPT !.pc = "sa_submit"])
    /\ UNCHANGED <<escaped, config, host, exists, constructed, backends, nCalls>>

\* loop.run_in_executor(executor, self._play_sync, ...): the worker starts,
\* or the submission raises and except Exception turns it into a result
SimpleAudioSubmit(c) ==
    LET f == calls[c] IN
    /\ f.pc = "sa_submit"
    /\ \/ SetCall(c, Started(f, "sa_wait",
                         PlaySyncArgs(f.file_path, config.volume_level)))
       \/ SetCall(c, Returned(f, SimpleAudioErrorResult("submit error")))
    /\ UNCHANGED <<escaped, config, host, exists, constructed, backends,
                   simpleaudio_loaded, probes, nCalls>>

\* wait_for(run_in_executor(...)) returns the result of _play_sync
SimpleAudioResult(c) ==
    LET f == calls[c] IN
    /\ f.pc = "sa_wait"
    /\ f.mech.state = "exited"
    /\ config.playback_timeout_seconds > 0
    /\ SetCall(c, Returned(f, PlaySyncResult(f.mech.rc, f.mech.diag)))
    /\ UNCHANGED <<escaped, config, host, exists, constructed, backends,
                   simpleaudio_loaded, probes, nCalls>>

\* SimpleAudioShutdown with executor.shutdown(wait=False): the worker is
\* not joined
SimpleAudioShutdown_NoJoin(c) ==
    LET f == calls[c] IN
    /\ f.pc = "sa_timeout"
    /\ SetCall(c, Returned(f, TimeoutResult("simpleaudio",
                                  config.playback_timeout_seconds)))
    /\ UNCHANGED <<escaped, config, host, exists, constructed, backends,
                   simpleaudio_loaded, probes, nCalls>>

\* wait_for raised TimeoutError inside the with block: leaving the block
\* runs executor.shutdown(wait=True), which joins the worker thread; only
\* then does except asyncio.TimeoutError produce the result
SimpleAudioShutdown(c) ==
    LET f == calls[c] IN
    /\ f.pc = "sa_timeout"
    /\ f.mech.state = "exited"
    /\ SetCall(c, Returned(f, TimeoutResult("simpleaudio",
                                  config.playback_timeout_seconds)))
    /\ UNCHANGED <<escaped, config, host, exists, constructed, backends,
                   simpleaudio_loaded, probes, nCalls>>

\* ------------------------------------------------------------------------
\* The environment of an attempt
\* ------------------------------------------------------------------------

WaitingPcs == {"af_wait", "sa_wait"}
ExpiredPcs == {"af_timeout", "sa_timeout"}

\* the mechanism ends by itself: afplay exits with a return code and
\* stderr, _play_sync returns or raises
MechExit(c) ==
    LET f == calls[c] IN
    /\ f.pc \in WaitingPcs \cup ExpiredPcs
    /\ f.mech.state = "running"
    /\ \E rc \in {0, 1}, diag \in Diagnostics :
         /\ rc = 0 => diag = ""
         /\ SetCall(c, [f EXCEPT !.mech = [state |-> "exited", rc |-> rc,
                                           diag |-> diag],
                                 !.log[Len(f.log)].running = FALSE])
    /\ UNCHANGED <<escaped, config, host, exists, constructed, backends,
                   simpleaudio_loaded, probes, nCalls>>

\* where play continues when wait_for raises asyncio.TimeoutError
ExpiredPc(pc) == IF pc = "af_wait" THEN "af_timeout" ELSE "sa_timeout"

\* the timeout of wait_for expires before wait_for has returned
TimerFire(c) ==
    LET f == calls[c] IN
    /\ f.pc \in WaitingPcs
    /\ SetCall(c, [f EXCEPT !.pc = ExpiredPc(f.pc),
                            !.log[Len(f.log)].timer = TRUE,
                            !.log[Len(f.log)].expired =
                                (f.mech.state = "running")])
    /\ UNCHANGED <<escaped, config, host, exists, constructed, backends,
                   simpleaudio_loaded, probes, nCalls>>

\* ------------------------------------------------------------------------
\* Backends used on their own
\* ------------------------------------------------------------------------

\* await backend.play(file_path) on a backend that is in no registry
DirectPlay(c, name, file_path) ==
    /\ calls[c].pc \in {"idle", "done"}
    /\ nCalls[c] < MaxCalls
    /\ nCalls' = [nCalls EXCEPT ![c] = @ + 1]
    /\ SetCall(c, [IdleCall EXCEPT !.pc = "play",
                                   !.inst = "direct",
                                   !.phase = "direct",
                                   !.backend = name,
                                   !.file_path = file_path])
    /\ UNCHANGED <<escaped, config, host, exists, constructed, backends,
                   simpleaudio_loaded, probes>>

\* backend.play returns to its caller
DirectReturn(c) ==
    LET f == calls[c] IN
    /\ f.pc = "attempt_done"
    /\ f.inst = "direct"
    /\ SetCall(c, [f EXCEPT !.pc = "done", !.ret = f.attempt])
    /\ UNCHANGED <<escaped, config, host, exists, constructed, backends,
                   simpleaudio_loaded, probes, nCalls>>

\* backend.is_available() on a backend that is in no registry
DirectProbe(name) ==
    /\ probes[name] < MaxProbes
    /\ escaped = "None"
    /\ escaped' = IF name = "afplay" /\ AFPlayProbeRaises
                  THEN "OSError" ELSE "None"
    /\ probes' = [probes EXCEPT ![name] = @ + 1]
    /\ simpleaudio_loaded' =
           [simpleaudio_loaded EXCEPT !["direct"] =
               @ \/ (name = "simpleaudio" /\ SimpleAudioIsAvailable)]
    /\ UNCHANGED <<config, host, exists, constructed, backends, calls, nCalls>>

\* ------------------------------------------------------------------------
\* Specifications
\* ------------------------------------------------------------------------

BackendStep(c) ==
    \/ AFPlayEntry(c)
    \/ AFPlaySpawn(c)
    \/ AFPlayCommunicate(c)
    \/ AFPlayKill(c)
    \/ SimpleAudioEntry(c)
    \/ SimpleAudioSubmit(c)
    \/ SimpleAudioResult(c)
    \/ SimpleAudioShutdown(c)
    \/ MechExit(c)
    \/ TimerFire(c)

\* one AudioPlayer and one caller issuing calls one after the other
Next ==
    \/ Construct
    \/ \E custom_path \in CustomPathArgs : PlayNotification("c1", custom_path)
    \/ PlayWithBackends("c1")
    \/ LoopNext("c1")
    \/ AfterPrimary("c1")
    \/ AfterFallback("c1")
    \/ BackendStep("c1")

Spec == Init /\ [][Next]_vars

\* backends used on their own by one caller, as the backend tests do
NextBackend ==
    \/ \E name \in BackendNames : DirectProbe(name)
    \/ \E name \in BackendNames, file_path \in Files :
           DirectPlay("c1", name, file_path)
    \/ DirectReturn("c1")
    \/ BackendStep("c1")

\* no AudioPlayer is involved: one configuration stands for the timeout and
\* volume a test passes to play
InitBackend ==
    /\ Init
    /\ config.custom_sound_path = None
    /\ ~config.enable_fallback

SpecBackend == InitBackend /\ [][NextBackend]_vars

\* no other call is blocking the event loop: a call that is joining its
\* worker thread in executor.shutdown(wait=True) does so on the event loop's
\* thread, and no coroutine or timer callback runs meanwhile
LoopFree(c) == \A d \in Callers \ {c} : calls[d].pc # "sa_timeout"

\* a caller issues its call while another call may be in progress
ConcurrentCall(c, custom_path) ==
    /\ nCalls[c] = 0
    /\ PlayNotification(c, custom_path)

\* the steps the event loop runs for the call of c
LoopStep(c) ==
    \/ \E custom_path \in {None, <<"custom.wav">>} :
           ConcurrentCall(c, custom_path)
    \/ PlayWithBackends(c)
    \/ LoopNext(c)
    \/ AfterPrimary(c)
    \/ AfterFallback(c)
    \/ AFPlayEntry(c)
    \/ AFPlaySpawn(c)
    \/ AFPlayCommunicate(c)
    \/ AFPlayKill(c)
    \/ SimpleAudioEntry(c)
    \/ SimpleAudioSubmit(c)
    \/ SimpleAudioResult(c)
    \/ SimpleAudioShutdown(c)
    \/ TimerFire(c)

\* one AudioPlayer on one event loop, every caller issuing one call
NextConcurrent ==
    \/ Construct
    \/ \E c \in Callers : LoopFree(c) /\ LoopStep(c)
    \/ \E c \in Callers : MechExit(c)

\* hosts whose registry holds one backend: afplay only, simpleaudio only
OneBackendHosts ==
    { h \in Hosts : (h.which = "found") # (h.simpleaudio = "importable") }

\* a host with one backend, one configuration, a complete filesystem
InitConcurrent ==
    /\ config = [custom_sound_path |-> None, enable_fallback |-> TRUE,
                 volume_level |-> 10, playback_timeout_seconds |-> 30]
    /\ host \in OneBackendHosts
    /\ exists = [p \in Files |-> TRUE]
    /\ constructed = FALSE
    /\ backends = <<>>
    /\ simpleaudio_loaded = [i \in Instances |-> FALSE]
    /\ probes = [b \in BackendNames |-> 0]
    /\ calls = [c \in Callers |-> IdleCall]
    /\ nCalls = [c \in Callers |-> 0]
    /\ escaped = "None"

SpecConcurrent == InitConcurrent /\ [][NextConcurrent]_vars

\* hosts with every outcome of the probe subprocess of AFPlayBackend:
\* which exits 0 or not, times out, is itself missing (FileNotFoundError),
\* or cannot be started for another reason (PermissionError, OSError)
ProbeHosts ==
    { h \in [platform : {"darwin", "linux"},
             which : {"found", "notfound", "timeout", "no_which", "oserror"},
             simpleaudio : {"importable", "missing"}] :
        h.platform = "linux" => h.which = "notfound" }

\* one configuration and a complete filesystem, on any host
InitProbe ==
    /\ config = [custom_sound_path |-> None, enable_fallback |-> TRUE,
                 volume_level |-> 10, playback_timeout_seconds |-> 30]
    /\ host \in ProbeHosts
    /\ exists = [p \in Files |-> TRUE]
    /\ constructed = FALSE
    /\ backends = <<>>
    /\ simpleaudio_loaded = [i \in Instances |-> FALSE]
    /\ probes = [b \in BackendNames |-> 0]
    /\ calls = [c \in Callers |-> IdleCall]
    /\ nCalls = [c \in Callers |-> 0]
    /\ escaped = "None"

\* an AudioPlayer constructed on any host
SpecProbe == InitProbe /\ [][Next]_vars

\* configurations as the configuration loader can hand them over, with
\* values outside their range: a volume above 1.0, a timeout of 0 seconds
AnyVolumeLevels == {10, 15}
AnyTimeoutValues == {30, 0}

\* volume_level within [0.0, 1.0] and a positive timeout
ConfigInRange ==
    /\ config.volume_level >= 0
    /\ config.volume_level <= 10
    /\ config.playback_timeout_seconds > 0

InitConfig ==
    /\ config \in [custom_sound_path : {None},
                    enable_fallback : {TRUE},
                    volume_level : AnyVolumeLevels,
                    playback_timeout_seconds : AnyTimeoutValues]
    /\ host \in Hosts
    /\ exists = [p \in Files |-> TRUE]
    /\ constructed = FALSE
    /\ backends = <<>>
    /\ simpleaudio_loaded = [i \in Instances |-> FALSE]
    /\ probes = [b \in BackendNames |-> 0]
    /\ calls = [c \in Callers |-> IdleCall]
    /\ nCalls = [c \in Callers |-> 0]
    /\ escaped = "None"

\* an AudioPlayer given any configuration
SpecConfig == InitConfig /\ [][Next]_vars

\* the files that are created and deleted while the AudioPlayer is in use
ChangingFiles == { DefaultSoundPath, <<"custom.wav">> }

\* the filesystem changes under the program: a file is deleted or created
FileChange(p) ==
    /\ exists' = [exists EXCEPT ![p] = ~@]
    /\ UNCHANGED <<escaped, config, host, constructed, backends,
                   simpleaudio_loaded, probes, calls, nCalls>>

\* one caller on a filesystem that changes between and during attempts
NextFiles ==
    \/ Next
    \/ \E p \in ChangingFiles : FileChange(p)

\* a host with both backends, one configuration, a complete filesystem
InitFiles ==
    /\ config = [custom_sound_path |-> None, enable_fallback |-> TRUE,
                 volume_level |-> 10, playback_timeout_seconds |-> 30]
    /\ host = [platform |-> "darwin", which |-> "found",
               simpleaudio |-> "importable"]
    /\ exists = [p \in Files |-> TRUE]
    /\ constructed = FALSE
    /\ backends = <<>>
    /\ simpleaudio_loaded = [i \in Instances |-> FALSE]
    /\ probes = [b \in BackendNames |-> 0]
    /\ calls = [c \in Callers |-> IdleCall]
    /\ nCalls = [c \in Callers |-> 0]
    /\ escaped = "None"

SpecFiles == InitFiles /\ [][NextFiles]_vars

\* ------------------------------------------------------------------------
\* Properties
\* ------------------------------------------------------------------------

\* the frames of play_notification calls on the AudioPlayer
PlayerCalls == { c \in Callers : calls[c].inst = "registry" }

\* the attempts of frame f made in a phase ("primary" or "fallback")
AttemptsIn(f, phase) == { i \in DOMAIN f.log : f.log[i].phase = phase }

\* frame f has left the pass of a phase
PassOver(f, phase) ==
    \/ f.pc = "done"
    \/ f.pc = "pass_return" /\ f.phase = phase
    \/ phase = "primary" /\ f.phase = "fallback"

\* C1: with an empty registry, play_notification invokes no backend in any
\* pass and returns a result with status failed, for every override,
\* fallback setting and configuration.
C1_EmptyRegistryFails ==
    \A c \in PlayerCalls :
        (constructed /\ backends = <<>>) =>
            /\ calls[c].log = <<>>
            /\ calls[c].pc \in {"idle", "pass_start", "pass_return", "done"}
            /\ calls[c].pc = "done" =>
                   /\ calls[c].ret.status = "failed"
                   /\ calls[c].ret.backend_used = NoName

\* an empty registry has answered a call whose fallback pass was run too
C1_Witness ==
    /\ constructed /\ backends = <<>>
    /\ calls["c1"].pc = "done"
    /\ calls["c1"].phase = "fallback"
    /\ calls["c1"].ret.status = "failed"

\* C2: within one pass, no backend is invoked after a backend whose play
\* returned success, and the pass returns that successful result.
C2_SuccessShortCircuits ==
    \A c \in PlayerCalls :
        LET f == calls[c] IN
        \A i \in DOMAIN f.log :
            f.log[i].status = "success" =>
                /\ \A j \in DOMAIN f.log :
                       j > i => f.log[j].phase # f.log[i].phase
                /\ PassOver(f, f.log[i].phase) /\ f.log[i].phase = f.phase =>
                       /\ f.pass_result.status = "success"
                       /\ f.pass_result.backend_used = f.log[i].backend

\* the first of two backends succeeded and the pass is over
C2_Witness ==
    /\ Len(backends) = 2
    /\ calls["c1"].pc = "pass_return"
    /\ Len(calls["c1"].log) = 1
    /\ calls["c1"].log[1].backend = backends[1]
    /\ calls["c1"].log[1].status = "success"

\* C3: a timeout of one backend ends only that attempt: once the pass is
\* over, a timed-out attempt of the first of two backends is followed by an
\* attempt of the second on the same asset, and when that succeeds in the
\* primary pass the call returns success naming the second backend.
C3_TimeoutTriesNext ==
    \A c \in PlayerCalls :
        LET f == calls[c] IN
        \A i \in DOMAIN f.log :
            ( /\ Len(backends) = 2
              /\ f.log[i].status = "timeout"
              /\ f.log[i].backend = backends[1]
              /\ PassOver(f, f.log[i].phase) ) =>
                /\ i < Len(f.log)
                /\ f.log[i + 1].backend = backends[2]
                /\ f.log[i + 1].phase = f.log[i].phase
                /\ f.log[i + 1].path = f.log[i].path
                /\ ( /\ f.pc = "done"
                     /\ f.log[i].phase = "primary"
                     /\ f.log[i + 1].status = "success" ) =>
                       /\ f.ret.status = "success"
                       /\ f.ret.backend_used = backends[2]

\* the first backend timed out, the second succeeded, the call returned
C3_Witness ==
    /\ backends = <<"afplay", "simpleaudio">>
    /\ calls["c1"].pc = "done"
    /\ Len(calls["c1"].log) = 2
    /\ calls["c1"].log[1].status = "timeout"
    /\ calls["c1"].log[1].expired
    /\ calls["c1"].log[2].status = "success"
    /\ calls["c1"].ret.backend_used = "simpleaudio"

\* every attempt of frame f in the primary pass failed, on each backend
PrimaryFailedEverywhere(f) ==
    /\ Cardinality(AttemptsIn(f, "primary")) = Len(backends)
    /\ \A i \in AttemptsIn(f, "primary") :
           f.log[i].status \notin {"success", "pending"}

\* C4: when the custom asset failed on every backend, fallback is enabled
\* and the default asset succeeds on a backend in the fallback pass, the
\* call returns fallback_used with the flag set, that backend's name, and a
\* message containing the message of the primary failure.
C4_FallbackRelabels ==
    \A c \in PlayerCalls :
        LET f == calls[c] IN
        \A i \in AttemptsIn(f, "fallback") :
            ( /\ f.pc = "done"
              /\ f.use_custom
              /\ config.enable_fallback
              /\ PrimaryFailedEverywhere(f)
              /\ f.log[i].status = "success" ) =>
                /\ f.ret.status = "fallback_used"
                /\ f.ret.fallback_used
                /\ f.ret.backend_used = f.log[i].backend
                /\ f.log[i].path = DefaultSoundPath
                /\ f.result.status # "success"
                /\ f.result.message # <<>>
                /\ Contains(f.ret.message, f.result.message)
                /\ f.ret.message # f.result.message

\* the default asset succeeded on the second backend after the custom one
\* had failed on both
C4_Witness ==
    /\ Len(backends) = 2
    /\ calls["c1"].pc = "done"
    /\ Len(calls["c1"].log) = 4
    /\ calls["c1"].log[4].status = "success"
    /\ calls["c1"].log[4].backend = backends[2]
    /\ calls["c1"].ret.status = "fallback_used"

\* C5: when the custom asset failed on every backend and fallback is
\* disabled, the call returns the primary failure (failed, timeout or
\* file_not_found) and no backend is invoked with the default asset.
C5_NoFallbackWhenDisabled ==
    \A c \in PlayerCalls :
        LET f == calls[c] IN
        ( /\ f.use_custom
          /\ ~config.enable_fallback
          /\ backends # <<>>
          /\ PrimaryFailedEverywhere(f)
          /\ PassOver(f, "primary") ) =>
            /\ AttemptsIn(f, "fallback") = {}
            /\ f.phase = "primary"
            /\ f.audio_path # DefaultSoundPath =>
                   \A i \in DOMAIN f.log : f.log[i].path # DefaultSoundPath
            /\ f.pc = "done" =>
                   /\ f.ret.status = f.log[Len(f.log)].status
                   /\ f.ret.backend_used = f.log[Len(f.log)].backend
                   /\ f.ret.status \in {"failed", "timeout", "file_not_found"}
                   /\ ~f.ret.fallback_used

\* a custom asset failed on both backends with fallback disabled
C5_Witness ==
    /\ ~config.enable_fallback
    /\ Len(backends) = 2
    /\ calls["c1"].pc = "done"
    /\ calls["c1"].use_custom
    /\ calls["c1"].audio_path # DefaultSoundPath
    /\ calls["c1"].ret.status = "timeout"
    /\ Len(calls["c1"].log) = 2

\* C6 as claimed: for every backend and backend state, play on a path that
\* does not exist returns file_not_found without starting the mechanism,
\* the file check being the first check of play.
C6_MissingFileIsFileNotFound ==
    \A c \in Callers :
        \A i \in DOMAIN calls[c].log :
            LET a == calls[c].log[i] IN
            (~a.present /\ a.status # "pending") =>
                a.status = "file_not_found" /\ ~a.spawned

\* C6 as amended: play on a path that does not exist never starts the
\* mechanism; AFPlayBackend returns file_not_found, and SimpleAudioBackend
\* returns file_not_found when the simpleaudio library is loaded or can be
\* imported, while it returns failed ("simpleaudio not available") when it
\* is neither, because it checks the library before the file.
C6_MissingFileNeverSpawns ==
    \A c \in Callers :
        \A i \in DOMAIN calls[c].log :
            LET a == calls[c].log[i] IN
            ~a.present =>
                /\ a.status # "pending"
                /\ ~a.spawned
                /\ a.cmd = <<>>
                /\ a.backend = "afplay" => a.status = "file_not_found"
                /\ a.backend = "simpleaudio" =>
                       a.status = IF SimpleAudioIsAvailable
                                  THEN "file_not_found" ELSE "failed"
                /\ (i = Len(calls[c].log) /\ a.status = "failed") =>
                       calls[c].attempt.message =
                           <<"simpleaudio not available">>

\* a SimpleAudioBackend used on its own was asked for a missing file
C6_Witness ==
    /\ calls["c1"].pc = "done"
    /\ calls["c1"].inst = "direct"
    /\ calls["c1"].backend = "simpleaudio"
    /\ ~calls["c1"].log[1].present
    /\ calls["c1"].ret.status = "file_not_found"

\* C7: the primary asset of a call is the caller's override whenever one
\* is supplied and the default asset otherwise, whatever the configuration
\* holds as its own custom path.
C7_PrimaryIsOverride ==
    \A c \in PlayerCalls :
        calls[c].pc # "idle" =>
            calls[c].audio_path =
                IF Truthy(calls[c].custom_path)
                THEN Path(calls[c].custom_path)
                ELSE DefaultSoundPath

\* the status the primary pass of frame f ended with, read off its attempts
PrimaryStatus(f) ==
    IF AttemptsIn(f, "primary") = {} THEN "failed"
    ELSE f.log[Cardinality(AttemptsIn(f, "primary"))].status

\* the backend whose result the primary pass of frame f ended with
PrimaryBackend(f) ==
    IF AttemptsIn(f, "primary") = {} THEN NoName
    ELSE f.log[Cardinality(AttemptsIn(f, "primary"))].backend

\* C8: a second pass with the default asset happens if and only if the
\* primary pass did not succeed, the primary asset is custom, fallback is
\* enabled and the primary asset is not the default asset; otherwise the
\* primary result is returned as it is and the default asset is not
\* retried.
C8_FallbackIffAllFour ==
    \A c \in PlayerCalls :
        LET f == calls[c]
            all_four == /\ PrimaryStatus(f) # "success"
                        /\ f.use_custom
                        /\ config.enable_fallback
                        /\ f.audio_path # DefaultSoundPath
        IN
        (f.pc = "done" \/ f.phase = "fallback") =>
            /\ (f.phase = "fallback") <=> all_four
            /\ (f.phase = "fallback" /\ f.pc = "done") =>
                   \/ backends = <<>>
                   \/ \E i \in AttemptsIn(f, "fallback") :
                          f.log[i].path = DefaultSoundPath
            /\ (f.pc = "done" /\ ~all_four) =>
                   /\ AttemptsIn(f, "fallback") = {}
                   /\ f.ret = f.result
                   /\ f.ret.status = PrimaryStatus(f)
                   /\ f.ret.backend_used = PrimaryBackend(f)

\* the override names the default asset, the primary pass failed with
\* fallback enabled, and no second pass was made
C8_Witness ==
    /\ calls["c1"].pc = "done"
    /\ calls["c1"].use_custom
    /\ config.enable_fallback
    /\ calls["c1"].audio_path = DefaultSoundPath
    /\ calls["c1"].ret.status = "failed"
    /\ calls["c1"].phase = "primary"
    /\ Len(backends) = 2

\* C9: when the fallback pass ends without success too, the call returns
\* the result of the primary pass with its status, message, backend name
\* and fallback flag (false) as the primary pass produced them.
C9_FallbackFailureKeepsPrimary ==
    \A c \in PlayerCalls :
        LET f == calls[c] IN
        ( /\ f.pc = "done"
          /\ f.phase = "fallback"
          /\ \A i \in AttemptsIn(f, "fallback") :
                 f.log[i].status # "success" ) =>
            /\ f.ret = f.result
            /\ f.ret.status = PrimaryStatus(f)
            /\ f.ret.backend_used = PrimaryBackend(f)
            /\ ~f.ret.fallback_used
            /\ f.ret.status # "fallback_used"
            /\ ~Contains(f.ret.message,
                         <<"Custom audio failed, used fallback: ">>)

\* both passes failed, with different failures
C9_Witness ==
    /\ calls["c1"].pc = "done"
    /\ calls["c1"].phase = "fallback"
    /\ Len(calls["c1"].log) = 4
    /\ calls["c1"].ret.status = "timeout"
    /\ calls["c1"].log[4].status = "file_not_found"

\* C10: whenever the timeout expires while the mechanism is still running,
\* play returns timeout and no other status, in every interleaving of the
\* expiry, the mechanism's exit and the kill.
C10_ExpiryIsTimeout ==
    \A c \in Callers :
        \A i \in DOMAIN calls[c].log :
            LET a == calls[c].log[i] IN
            (a.expired /\ a.status # "pending") => a.status = "timeout"

\* C11: every backend.play call returns even if the mechanism never ends
\* by itself: once the timeout has expired, play can go on to return
\* without the mechanism having to finish first.
C11_ResumesAfterExpiry ==
    \A c \in Callers :
        calls[c].pc \in ExpiredPcs =>
            ENABLED (AFPlayKill(c) \/ SimpleAudioShutdown(c))

C13_FailuresAreResults ==
    \A c \in Callers :
        LET f == calls[c]
            a == f.log[Len(f.log)]
        IN
        /\ escaped = "None" \/ ~constructed
        /\ f.pc = "done" => f.ret.status \in PlaybackStatus
        /\ (f.pc = "attempt_done") =>
               /\ f.attempt.status \in PlaybackStatus
               /\ f.attempt.backend_used = a.backend
               /\ f.attempt.message # <<>>
               /\ (a.spawned /\ ~a.timer /\ f.mech.rc # 0) =>
                      /\ f.attempt.status = "failed"
                      /\ f.mech.diag # "" =>
                             Contains(f.attempt.message, <<f.mech.diag>>)
               /\ (a.present /\ ~a.spawned
                     /\ f.attempt.message # <<"simpleaudio not available">>) =>
                      /\ f.attempt.status = "failed"
                      /\ \/ Contains(f.attempt.message, <<"spawn error">>)
                         \/ Contains(f.attempt.message, <<"submit error">>)
               /\ a.kill = "lookup_error" =>
                      /\ f.attempt.status = "failed"
                      /\ Contains(f.attempt.message, <<"afplay error: ">>)

\* afplay exited with a nonzero code and a text on stderr
C13_Witness ==
    /\ calls["c1"].pc = "attempt_done"
    /\ calls["c1"].backend = "afplay"
    /\ calls["c1"].mech.rc = 1
    /\ calls["c1"].mech.diag = "diag"
    /\ ~calls["c1"].log[Len(calls["c1"].log)].timer
    /\ calls["c1"].attempt.status = "failed"

\* C14: with a volume outside [0.0, 1.0] or a timeout that is not
\* positive, play_notification raises a configuration error instead of
\* returning a result, and no backend is invoked with the value.
C14_RejectsOutOfRange ==
    \A c \in PlayerCalls :
        ~ConfigInRange =>
            /\ calls[c].log = <<>>
            /\ calls[c].pc # "done"

\* C15: is_available of every backend never raises to its caller, whatever
\* the probe runs into, so constructing an AudioPlayer never fails because
\* audio capability is absent.
C15_ProbeNeverRaises == escaped = "None"

\* C16: two calls in sequence on one AudioPlayer with a succeeding backend
\* both return success, and a call leaks no state: at any point after
\* construction the registry is what construction built, every probe has
\* been evaluated exactly once, every call starts at the head of the
\* registry with the asset selected from its own argument, and a call
\* whose first attempt succeeds returns success after that single attempt,
\* whatever the call before it did.
C16_SequentialCallsLeakNothing ==
    /\ constructed =>
          /\ backends = SetupBackends
          /\ probes = [b \in BackendNames |-> 1]
          /\ simpleaudio_loaded["registry"] = SimpleAudioIsAvailable
    /\ \A c \in PlayerCalls :
         LET f == calls[c] IN
         /\ f.pc # "idle" =>
               f.audio_path = SelectAudioPath(f.custom_path)
         /\ f.log # <<>> =>
               /\ f.log[1].backend = backends[1]
               /\ f.log[1].path = SelectAudioPath(f.custom_path)
               /\ f.log[1].phase = "primary"
         /\ (f.pc = "done" /\ f.log # <<>> /\ f.log[1].status = "success") =>
               /\ f.ret.status = "success"
               /\ Len(f.log) = 1

\* the second of two calls has returned success through simpleaudio, as the
\* first did
C16_Witness ==
    LET f == calls["c1"] IN
    /\ nCalls["c1"] >= 2
    /\ f.pc = "done"
    /\ f.prev_success
    /\ f.ret.status = "success"
    /\ f.ret.backend_used = "simpleaudio"
    /\ probes["simpleaudio"] = 1

\* the attempts of frame f whose mechanism is producing output
Sounding(f) == { i \in DOMAIN f.log : f.log[i].running }

\* C17 as stated: across all calls in flight on the AudioPlayer, at most
\* one playback mechanism is producing output.
C17_OneSoundAtATime ==
    Cardinality({ c \in PlayerCalls : Sounding(calls[c]) # {} }) <= 1

\* C17: within one play_notification call at most one playback mechanism
\* is producing output, and it is the mechanism of the call's latest
\* attempt; calls issued concurrently each have their own.
C17_OneSoundPerCall ==
    \A c \in PlayerCalls :
        LET f == calls[c] IN
        /\ Cardinality(Sounding(f)) <= 1
        /\ Sounding(f) \subseteq {Len(f.log)}
        /\ f.pc \in {"pass_start", "play", "pass_return", "done"} =>
               Sounding(f) = {}

\* two calls issued concurrently both have their mechanism running, one of
\* them in its fallback pass
C17_Witness ==
    /\ Sounding(calls["c1"]) # {}
    /\ Sounding(calls["c2"]) # {}
    /\ calls["c1"].phase = "fallback"

\* the backend variants in their fixed priority order
PriorityOrder == <<"afplay", "simpleaudio">>

\* the probe of a backend variant returns true on this host
ProbeReturnsTrue(name) ==
    IF name = "afplay" THEN AFPlayIsAvailable ELSE SimpleAudioIsAvailable

\* C18: once the AudioPlayer is constructed, and through every later
\* operation, the registry holds exactly the backend variants whose probe
\* returned true, afplay before simpleaudio, and each variant has been
\* probed exactly once.
C18_RegistryIsProbedPriorityOrder ==
    constructed =>
        /\ backends = SelectSeq(PriorityOrder, ProbeReturnsTrue)
        /\ \A name \in BackendNames : probes[name] = 1

\* on a host where both probes return true, two calls have run through
\* both backends of the registry
C18_Witness ==
    /\ constructed
    /\ backends = PriorityOrder
    /\ nCalls["c1"] >= 2
    /\ calls["c1"].pc = "done"
    /\ Len(calls["c1"].log) >= 2

\* the probe subprocess of afplay did not answer in time: the registry
\* holds simpleaudio alone
C18_WitnessProbeTimeout ==
    /\ constructed
    /\ host.which = "timeout"
    /\ backends = <<"simpleaudio">>
    /\ calls["c1"].pc = "done"

\* the number of attempts frame f made in its primary pass
PrimaryCount(f) == Cardinality(AttemptsIn(f, "primary"))

\* C19: within one call the attempts are sequential and in registry order:
\* every attempt but the latest has returned a result that is not a
\* success and its mechanism has ended, the i-th attempt of a pass is on
\* backend i of the registry, the primary attempts come first, and a
\* fallback attempt exists only when the primary pass went through the
\* whole registry and play_notification holds its non-success result.
C19_AttemptsSequentialInOrder ==
    \A c \in PlayerCalls :
        LET f == calls[c]
            np == PrimaryCount(f)
        IN
        /\ \A i \in DOMAIN f.log :
              /\ i < Len(f.log) =>
                    /\ f.log[i].status \notin {"pending", "success"}
                    /\ ~f.log[i].running
              /\ i <= np =>
                    /\ f.log[i].phase = "primary"
                    /\ i <= Len(backends)
                    /\ f.log[i].backend = backends[i]
              /\ i > np =>
                    /\ f.log[i].phase = "fallback"
                    /\ i - np <= Len(backends)
                    /\ f.log[i].backend = backends[i - np]
        /\ AttemptsIn(f, "fallback") # {} =>
              /\ np = Len(backends)
              /\ f.phase = "fallback" \/ f.pc = "done"
              /\ f.result # NoResult
              /\ f.result.status # "success"
              /\ f.result.backend_used = backends[np]

\* with two backends registered, both primary attempts have failed and the
\* first fallback attempt is waiting for its mechanism
C19_Witness ==
    LET f == calls["c1"] IN
    /\ Len(backends) = 2
    /\ Len(f.log) = 3
    /\ f.phase = "fallback"
    /\ f.pc \in WaitingPcs
    /\ f.log[3].running

\* C20: a call never retries: no backend is invoked twice on the same
\* asset, the call makes at most as many attempts as the registry has
\* backends while it is in its primary pass and at most twice as many once
\* the fallback is triggered, and every attempt is on the primary asset or
\* on the default asset.
C20_NoRetries ==
    \A c \in PlayerCalls :
        LET f == calls[c] IN
        /\ \A i, j \in DOMAIN f.log :
              (f.log[i].backend = f.log[j].backend
                  /\ f.log[i].path = f.log[j].path) => i = j
        /\ f.phase # "fallback" => Len(f.log) <= Len(backends)
        /\ Len(f.log) <= 2 * Len(backends)
        /\ \A i \in DOMAIN f.log :
              f.log[i].path \in {f.audio_path, DefaultSoundPath}
        /\ Cardinality({ f.log[i].path : i \in DOMAIN f.log }) <= 2

\* a call has gone through both backends on the custom asset and on the
\* default asset, two of the attempts having timed out
C20_Witness ==
    LET f == calls["c1"] IN
    /\ f.pc = "done"
    /\ Len(backends) = 2
    /\ Len(f.log) = 4
    /\ f.log[1].status = "timeout"
    /\ f.log[3].status = "timeout"
    /\ f.log[1].path # f.log[3].path

\* C21: a pass over a non-empty registry that ends without a success
\* returns exactly the result the last backend of the registry produced
\* (status, message and backend name); the synthesized no-backends result
\* is returned exactly when the registry is empty, and the synthesized
\* all-failed result never.
C21_ExhaustedPassReturnsLast ==
    \A c \in PlayerCalls :
        LET f == calls[c]
            n == Len(backends)
        IN
        f.pc = "pass_return" =>
            /\ (n > 0 /\ f.pass_result.status # "success") =>
                  /\ f.log # <<>>
                  /\ f.log[Len(f.log)].backend = backends[n]
                  /\ f.log[Len(f.log)].phase = f.phase
                  /\ f.pass_result = f.attempt
                  /\ f.pass_result.status = f.log[Len(f.log)].status
                  /\ f.pass_result.backend_used = backends[n]
            /\ (f.pass_result = NoBackendsResult) <=> (n = 0)
            /\ f.pass_result # AllFailedResult

\* with two backends, the first timed out and the second failed: the pass
\* returns the failure of the second
C21_Witness ==
    LET f == calls["c1"] IN
    /\ f.pc = "pass_return"
    /\ Len(backends) = 2
    /\ Len(f.log) = 2
    /\ f.log[1].status = "timeout"
    /\ f.pass_result.status = "failed"
    /\ f.pass_result.backend_used = "simpleaudio"

\* C22: every attempt of a call asks the filesystem itself: an attempt made
\* while its asset is absent returns file_not_found without starting a
\* mechanism, and an attempt made while the asset is present goes on to
\* start its mechanism and never returns file_not_found, whatever an
\* earlier attempt of the same call saw of the same file.
C22_ExistenceCheckedPerAttempt ==
    \A c \in PlayerCalls :
        LET f == calls[c] IN
        \A i \in DOMAIN f.log :
            LET a == f.log[i] IN
            /\ ~a.present =>
                  /\ ~a.spawned
                  /\ a.status = "file_not_found"
            /\ a.present =>
                  /\ a.status # "file_not_found"
                  /\ (i = Len(f.log) /\ a.status = "pending") =>
                        f.pc \in {"af_spawn", "sa_submit"}
                           \cup WaitingPcs \cup ExpiredPcs

\* the asset disappeared between two attempts of a call: afplay started on
\* it and timed out, simpleaudio found it gone
C22_Witness ==
    LET f == calls["c1"] IN
    /\ Len(f.log) >= 2
    /\ f.log[1].path = f.log[2].path
    /\ f.log[1].present /\ f.log[1].spawned
    /\ f.log[1].status = "timeout"
    /\ ~f.log[2].present
    /\ f.log[2].status = "file_not_found"

\* the asset appeared between two attempts of a call: afplay found it
\* missing, simpleaudio played it
C22_WitnessAppears ==
    LET f == calls["c1"] IN
    /\ Len(f.log) >= 2
    /\ f.log[1].path = f.log[2].path
    /\ ~f.log[1].present
    /\ f.log[1].status = "file_not_found"
    /\ f.log[2].present /\ f.log[2].spawned
    /\ f.log[2].status = "success"

\* the result r says that no mechanism is available at all
NoMechanismClass(r) ==
    /\ r.status = "failed"
    /\ r.message = <<"No audio backends available">>
    /\ r.backend_used = NoName

\* the result r of frame f says that a backend was tried and failed: it
\* carries the name and status of an attempt the call made on its primary
\* asset, and when no fallback pass ran it is that attempt's result
TriedAndFailedClass(f, r) ==
    /\ r.status \notin {"success", "fallback_used"}
    /\ r.backend_used \in BackendNames
    /\ \E i \in AttemptsIn(f, "primary") :
          /\ f.log[i].backend = r.backend_used
          /\ f.log[i].status = r.status
    /\ f.phase = "primary" => r = f.attempt

\* the result r says that the default asset was played after the custom
\* asset had failed
FallbackClass(r) == r.status = "fallback_used"

\* the result r of frame f says that the primary asset was played
PlayedPrimaryClass(f, r) ==
    /\ r.status = "success"
    /\ f.phase = "primary"
    /\ r = f.attempt

\* how many of the conditions in the sequence bs hold
RECURSIVE CountTrue(_)
CountTrue(bs) ==
    IF bs = <<>> THEN 0
    ELSE (IF Head(bs) THEN 1 ELSE 0) + CountTrue(Tail(bs))

\* C23 as stated: every result play_notification returns is in exactly one
\* of the classes no-mechanism, tried-and-failed, succeeded-via-fallback.
C23_ThreeClasses ==
    \A c \in PlayerCalls :
        LET f == calls[c] IN
        f.pc = "done" =>
            CountTrue(<<NoMechanismClass(f.ret),
                        TriedAndFailedClass(f, f.ret),
                        FallbackClass(f.ret)>>) = 1

\* C23: every result play_notification returns is in exactly one of four
\* classes: no mechanism available, tried and failed, succeeded via
\* fallback, or played the primary asset; the no-mechanism class is
\* returned if and only if the registry is empty.
C23_ResultClasses ==
    \A c \in PlayerCalls :
        LET f == calls[c] IN
        f.pc = "done" =>
            /\ CountTrue(<<NoMechanismClass(f.ret),
                           TriedAndFailedClass(f, f.ret),
                           FallbackClass(f.ret),
                           PlayedPrimaryClass(f, f.ret)>>) = 1
            /\ NoMechanismClass(f.ret) <=> (backends = <<>>)

\* a call returns the timeout of its primary pass after the fallback pass
\* has failed as well
C23_Witness ==
    LET f == calls["c1"] IN
    /\ f.pc = "done"
    /\ f.phase = "fallback"
    /\ Len(f.log) = 4
    /\ f.ret.status = "timeout"
    /\ f.ret.backend_used = "simpleaudio"
    /\ TriedAndFailedClass(f, f.ret)

\* the last attempt frame f made in a phase (0 when it made none)
LastIn(f, phase) ==
    IF AttemptsIn(f, phase) = {} THEN 0
    ELSE CHOOSE i \in AttemptsIn(f, phase) :
             \A j \in AttemptsIn(f, phase) : j <= i

\* the status a call returns when it runs alone and its backends answer as
\* the attempts of frame f did
AloneStatus(f) ==
    LET p == LastIn(f, "primary")
        q == LastIn(f, "fallback")
    IN
    IF p = 0 THEN "failed"
    ELSE IF f.log[p].status = "success" THEN "success"
    ELSE IF q # 0 /\ f.log[q].status = "success" THEN "fallback_used"
    ELSE f.log[p].status

\* the backend named in that result
AloneBackend(f) ==
    LET p == LastIn(f, "primary")
        q == LastIn(f, "fallback")
    IN
    IF p = 0 THEN NoName
    ELSE IF AloneStatus(f) = "fallback_used" THEN f.log[q].backend
    ELSE f.log[p].backend

\* C24: calls issued concurrently on one AudioPlayer do not interfere: the
\* registry stays what construction built, every attempt of a call is on
\* the asset selected from that call's own argument or on the default
\* asset, and in every interleaving a call returns the status, backend
\* name, fallback flag and message that follow from the outcomes of its
\* own attempts alone.
C24_ConcurrentCallsIndependent ==
    /\ constructed => backends = SetupBackends
    /\ \A c \in PlayerCalls :
         LET f == calls[c] IN
         /\ \A i \in DOMAIN f.log :
               f.log[i].path =
                   IF f.log[i].phase = "primary"
                   THEN SelectAudioPath(f.custom_path)
                   ELSE DefaultSoundPath
         /\ f.pc = "done" =>
               /\ f.ret.status = AloneStatus(f)
               /\ f.ret.backend_used = AloneBackend(f)
               /\ f.ret.fallback_used = (AloneStatus(f) = "fallback_used")
               /\ f.ret.status = "fallback_used" =>
                     f.ret.message =
                         <<"Custom audio failed, used fallback: ">>
                             \o f.result.message
               /\ f.ret.status \notin {"fallback_used", "success"} =>
                     f.ret = f.result

\* two calls were in flight together: one has returned the relabelled
\* fallback result, the other the failure of its own single attempt
C24_Witness ==
    /\ calls["c1"].pc = "done"
    /\ calls["c1"].ret.status = "fallback_used"
    /\ calls["c2"].pc = "done"
    /\ calls["c2"].custom_path = None
    /\ calls["c2"].ret.status = "failed"
    /\ calls["c2"].ret.fallback_used = FALSE

\* C25: in every result play_notification returns the fallback flag is set
\* if and only if the status is fallback_used, and a call whose primary
\* asset is the default asset (no override, or an override naming the
\* default asset) never returns fallback_used.
C25_FallbackFlagMatchesStatus ==
    \A c \in PlayerCalls :
        LET f == calls[c] IN
        f.pc = "done" =>
            /\ f.ret.fallback_used <=> (f.ret.status = "fallback_used")
            /\ (~Truthy(f.custom_path) \/ f.audio_path = DefaultSoundPath) =>
                  /\ f.ret.status # "fallback_used"
                  /\ AttemptsIn(f, "fallback") = {}

\* with the fallback enabled, a call whose override names the default
\* asset has failed on it and returns that failure
C25_Witness ==
    LET f == calls["c1"] IN
    /\ f.pc = "done"
    /\ config.enable_fallback
    /\ Truthy(f.custom_path)
    /\ f.audio_path = DefaultSoundPath
    /\ f.log # <<>>
    /\ f.ret.status \notin {"success", "fallback_used"}
    /\ ~f.ret.fallback_used

\* a call has returned the relabelled result of its fallback pass
C25_WitnessFallback ==
    LET f == calls["c1"] IN
    /\ f.pc = "done"
    /\ f.ret.status = "fallback_used"
    /\ f.ret.fallback_used

\* C26: play_notification returns success or fallback_used only when the
\* last backend.play it invoked returned success after its mechanism had
\* been started on an existing file and had ended with return code 0;
\* backend_used names that backend, which is in the registry; success means
\* the attempt was on the primary asset, fallback_used means it was on the
\* default asset after every backend of the registry had returned a
\* non-success result on the primary asset.
C26_SuccessMeansPlayed ==
    \A c \in PlayerCalls :
        LET f == calls[c]
            n == Len(f.log)
        IN
        (f.pc = "done" /\ f.ret.status \in {"success", "fallback_used"}) =>
            /\ n > 0
            /\ f.log[n].status = "success"
            /\ f.log[n].present /\ f.log[n].spawned
            /\ f.mech.state = "exited" /\ f.mech.rc = 0
            /\ f.ret.backend_used = f.log[n].backend
            /\ \E k \in DOMAIN backends : backends[k] = f.ret.backend_used
            /\ f.ret.status = "success" =>
                  /\ f.log[n].phase = "primary"
                  /\ f.log[n].path = f.audio_path
            /\ f.ret.status = "fallback_used" =>
                  /\ f.log[n].phase = "fallback"
                  /\ f.log[n].path = DefaultSoundPath
                  /\ f.audio_path # DefaultSoundPath
                  /\ \A k \in DOMAIN backends :
                        \E i \in AttemptsIn(f, "primary") :
                            /\ f.log[i].backend = backends[k]
                            /\ f.log[i].status \notin {"success", "pending"}

\* both backends failed on the custom asset, afplay failed on the default
\* asset and simpleaudio played it
C26_Witness ==
    LET f == calls["c1"] IN
    /\ f.pc = "done"
    /\ f.ret.status = "fallback_used"
    /\ f.ret.backend_used = "simpleaudio"
    /\ Len(f.log) = 4
    /\ f.mech.rc = 0

====
